---- MODULE Spec2Model ----
(***************************************************************************)
(* Lattice-Lab: q-ary basis construction, lattice volume, the basis text  *)
(* codec, and the reduction oracle (simulated, process-backed one-stage   *)
(* and two-stage) with its temporary files, as state machines.            *)
(*                                                                         *)
(* A basis is a sequence of rows, a row a sequence of integers (big.Int). *)
(* Texts (file contents, engine output) are sequences of lexemes: single  *)
(* characters, plus a few multi-character lexemes the parsers only ever   *)
(* look at as a whole ("nan", "inf", "x", "log(||b_").                     *)
(***************************************************************************)
EXTENDS Integers, Sequences, FiniteSets, TLC

VARIABLES
    \* genBasis(n, m, q)
    gpc, gN, gM, gQ, gA, gB,
    \* latticeVolume under row operations
    vBasis, vOp, vPrev, vVol0, vVol,
    \* writeBasisToFile / parseMatrixOutput round trip
    cpc, cBasis, cText, cParsed,
    \* one oracle query: svpOracle or runBKZ, simulated or process-backed
    qpc,        \* where the query is
    qKind,      \* which implementation is called
    qBasis,     \* the basis argument
    qRadius,    \* the radius argument of svpOracle
    qBeta,      \* the beta argument of runBKZ
    qFiles,     \* the temporary directory: path -> content
    qCreated,   \* the paths this query has created
    qDefers,    \* the deferred os.Remove calls, last registered first
    qRuns,      \* the engine modes started, in order
    qOutput,    \* the engine's standard output
    qRet,       \* the value returned
    qFail,      \* the error path taken, "none" on the success path
    qProfiled,  \* a profile has been computed from the engine's output
    \* a run of main in the simulated build
    mpc,        \* where the run is
    mN,         \* the loop variable n of runLab1Verification
    mBasis,     \* the basis of the current row or of Lab 2
    mSvp,       \* svpNormSquared of the current row
    mProfile,   \* the profile of Lab 2
    mLog,       \* the lines printed so far
    mCalls,     \* the functions called so far
    \* native
    npc,        \* where the native query is
    nKind,      \* svp_native or bkz_native
    nBasis,     \* the basis argument
    nArg,       \* the radius or the block size
    nI,         \* the row of the cell being marshalled
    nJ,         \* the column of the cell being marshalled
    nAllocated, \* the foreign allocations made by this query
    nFrees,     \* the foreign allocations released, in order
    nDefers,    \* the deferred releases, last registered first
    nRet,       \* the value returned
    \* conc
    kKind,      \* the kind of the two concurrent queries
    kBasis,     \* the basis of each query
    kpc,        \* where each query is
    kFiles,     \* the temporary directory they share
    kWriter,    \* the query that wrote the temporary file last
    kIn,        \* what the engine of each query found at its path
    kFail,      \* the error path each query took
    \* gh
    hpc,        \* where gaussianHeuristic is
    hVol,       \* the vol argument
    hRank,      \* the rank argument
    hRet,       \* the value returned
    \* batch
    bpc,        \* where the process-backed runLab1Verification is
    bN,         \* its loop variable n
    bRows,      \* the rows printed, in order
    bRef,       \* the rows of the same draws when no query fails
    bIssued,    \* the n of the queries issued, in order
    bFailed     \* the n of the queries that failed

genVars == <<gpc, gN, gM, gQ, gA, gB>>
volVars == <<vBasis, vOp, vPrev, vVol0, vVol>>
codecVars == <<cpc, cBasis, cText, cParsed>>
queryVars == <<qpc, qKind, qBasis, qRadius, qBeta, qFiles, qCreated, qDefers,
               qRuns, qOutput, qRet, qFail, qProfiled>>
mainVars == <<mpc, mN, mBasis, mSvp, mProfile, mLog, mCalls>>
nativeVars == <<npc, nKind, nBasis, nArg, nI, nJ, nAllocated, nFrees, nDefers, nRet>>
concVars == <<kKind, kBasis, kpc, kFiles, kWriter, kIn, kFail>>
ghVars == <<hpc, hVol, hRank, hRet>>
batchVars == <<bpc, bN, bRows, bRef, bIssued, bFailed>>
vars == <<genVars, volVars, codecVars, queryVars, mainVars, nativeVars, concVars, ghVars, batchVars>>

\* the variables of the other machines, which a step of one machine leaves alone
notGenVars == <<volVars, codecVars, queryVars, mainVars, nativeVars, concVars, ghVars, batchVars>>
notVolVars == <<genVars, codecVars, queryVars, mainVars, nativeVars, concVars, ghVars, batchVars>>
notCodecVars == <<genVars, volVars, queryVars, mainVars, nativeVars, concVars, ghVars, batchVars>>
notQueryVars == <<genVars, volVars, codecVars, mainVars, nativeVars, concVars, ghVars, batchVars>>
notMainVars == <<genVars, volVars, codecVars, queryVars, nativeVars, concVars, ghVars, batchVars>>
notNativeVars == <<genVars, volVars, codecVars, queryVars, mainVars, concVars, ghVars, batchVars>>
notConcVars == <<genVars, volVars, codecVars, queryVars, mainVars, nativeVars, ghVars, batchVars>>
notGhVars == <<genVars, volVars, codecVars, queryVars, mainVars, nativeVars, concVars, batchVars>>
notBatchVars == <<genVars, volVars, codecVars, queryVars, mainVars, nativeVars, concVars, ghVars>>

(***************************************************************************)
(* Bounds of the model.                                                    *)
(***************************************************************************)
\* largest m+n of a q-ary basis
MaxDim == 4
\* largest modulus q
MaxQ == 3
\* largest rank of a dense random basis
MaxRank == 2
\* genRandomBasis draws the entries of a dense basis from [0, MaxCoef)
MaxCoef == 2
\* largest number of rows and of columns of a basis that is written and parsed
MaxRows == 2
MaxCols == 2
\* largest rank of the basis of an oracle query
MaxQueryRank == 2
\* largest radius of a shortest-vector query
MaxRadius == 2
\* largest number of lexemes of a garbled engine output
MaxOutLen == 3
\* largest number of lines of the engine's gso output
MaxGsoLines == 2

\* largest n of a Lab 1 row (the program runs n = 30..60)
MaxLabDim == 3

\* the modulus of Lab 1 (the program's is 131)
LabQ == 2

\* the rank of the Lab 2 basis (the program's is 30)
Lab2Rank == 1

\* largest |vol| given to gaussianHeuristic
MaxGhVol == 4

\* largest |rank| given to gaussianHeuristic
MaxGhRank == 3

(***************************************************************************)
(* Small helpers.                                                          *)
(***************************************************************************)
Abs(x) == IF x < 0 THEN -x ELSE x

Range(s) == {s[i] : i \in 1..Len(s)}

\* the matrices with r rows and c columns over the entry set E
Matrices(r, c, E) == [1..r -> [1..c -> E]]

(***************************************************************************)
(* genBasis: the q-ary basis [[q*I_m, A], [0, I_n]].                       *)
(***************************************************************************)
\* the size x size matrix of big.NewInt(0)
ZeroMatrix(size) == [i \in 1..size |-> [j \in 1..size |-> 0]]

\* slip: the identity block written at B[i][i] instead of B[m+i][m+i]
genBasisNoOffset(n, m, q, A) ==
    LET size == m + n
        B1 == [i \in 1..size |-> [j \in 1..size |->
                  IF i <= m /\ j = i THEN q ELSE 0]]
        B2 == [i \in 1..size |-> [j \in 1..size |->
                  IF i <= m /\ j > m THEN A[i][j - m] ELSE B1[i][j]]]
    IN  [i \in 1..size |-> [j \in 1..size |->
            IF i <= n /\ j = i THEN 1 ELSE B2[i][j]]]

\* slip: q is written in the whole top-left block
genBasisFullBlock(n, m, q, A) ==
    LET size == m + n
    IN  [i \in 1..size |-> [j \in 1..size |->
            IF i <= m /\ j <= m THEN q
            ELSE IF i <= m /\ j > m THEN A[i][j - m]
            ELSE IF i > m /\ j = i THEN 1 ELSE 0]]

\* the four fills of genBasis, in the code's order, A being the matrix drawn
genBasis(n, m, q, A) ==
    LET size == m + n
        B0 == ZeroMatrix(size)
        \* q*I_m in the top-left block
        B1 == [i \in 1..size |-> [j \in 1..size |->
                  IF i <= m /\ j = i THEN q ELSE B0[i][j]]]
        \* A in the top-right block
        B2 == [i \in 1..size |-> [j \in 1..size |->
                  IF i <= m /\ j > m THEN A[i][j - m] ELSE B1[i][j]]]
        \* I_n in the bottom-right block
        B3 == [i \in 1..size |-> [j \in 1..size |->
                  IF i > m /\ j = i /\ i - m <= n THEN 1 ELSE B2[i][j]]]
    IN  B3

\* slip: the draw is from [0, q]
RandIntInclusive(q) == 0..q

\* rand.Int(rand.Reader, q): a value of [0, q); it panics when q <= 0
RandInt(q) == 0..(q - 1)

\* the arguments genBasis is called with
GenInputs ==
    {t \in (-1..MaxDim) \X (-1..MaxDim) \X (-1..MaxQ) :
        (t[1] >= 0 /\ t[2] >= 0) => t[1] + t[2] <= MaxDim}

GenStart ==
    /\ gpc = "start"
    /\ \E t \in GenInputs : gN = t[1] /\ gM = t[2] /\ gQ = t[3]
    /\ gA = <<>>
    /\ gB = <<>>

\* the first loop: make(A, m), make(A[i], n) and the m*n draws
GenDraw ==
    /\ gpc = "start"
    /\ gM >= 0
    /\ gM > 0 => gN >= 0
    /\ (gM > 0 /\ gN > 0) => gQ > 0
    /\ \E A \in Matrices(gM, gN, RandInt(gQ)) : gA' = A
    /\ gpc' = "drawn"
    /\ UNCHANGED <<gN, gM, gQ, gB>>
    /\ UNCHANGED <<notGenVars>>

\* make with a negative length, or rand.Int with q <= 0, panics
GenDrawPanic ==
    /\ gpc = "start"
    /\ \/ gM < 0
       \/ gM > 0 /\ gN < 0
       \/ gM > 0 /\ gN > 0 /\ gQ <= 0
    /\ gpc' = "panic"
    /\ UNCHANGED <<gN, gM, gQ, gA, gB>>
    /\ UNCHANGED <<notGenVars>>

\* the construction of B and the return
GenBuild ==
    /\ gpc = "drawn"
    /\ gM + gN >= 0
    /\ gB' = genBasis(gN, gM, gQ, gA)
    /\ gpc' = "returned"
    /\ UNCHANGED <<gN, gM, gQ, gA>>
    /\ UNCHANGED <<notGenVars>>

\* make(B, m+n) with m = 0 and n < 0 panics
GenBuildPanic ==
    /\ gpc = "drawn"
    /\ gM + gN < 0
    /\ gpc' = "panic"
    /\ UNCHANGED <<gN, gM, gQ, gA, gB>>
    /\ UNCHANGED <<notGenVars>>

GenNext ==
    \/ GenDraw
    \/ GenDrawPanic
    \/ GenBuild
    \/ GenBuildPanic

(***************************************************************************)
(* latticeVolume: sqrt(|det(B * BT)|) with BT a copy of B.                 *)
(* float64 arithmetic is modelled exactly: the integers of the model are   *)
(* far below 2^53, and Sqrt is the exact root of a perfect square (the     *)
(* floor of the root otherwise).                                           *)
(***************************************************************************)
\* genRandomBasis(rank, q): a rank x rank matrix of draws from [0, q)
genRandomBasis(rank, q) == Matrices(rank, rank, RandInt(q))

\* mat.Dense.Mul
MatMul(X, Y) ==
    [i \in 1..Len(X) |-> [j \in 1..Len(X) |->
        LET RECURSIVE Acc(_)
            Acc(k) == IF k = 0 THEN 0 ELSE Acc(k - 1) + X[i][k] * Y[k][j]
        IN  Acc(Len(X))]]

\* the transposed matrix (what B^T would be)
Transpose(X) == [i \in 1..Len(X) |-> [j \in 1..Len(X) |-> X[j][i]]]

\* X without row 1 and column c
Minor(X, c) ==
    [i \in 1..(Len(X) - 1) |-> [j \in 1..(Len(X) - 1) |->
        X[i + 1][IF j < c THEN j ELSE j + 1]]]

RECURSIVE Det(_)
\* mat.Det, by expansion along the first row
Det(X) ==
    IF Len(X) = 0 THEN 1
    ELSE IF Len(X) = 1 THEN X[1][1]
    ELSE LET RECURSIVE Sum(_)
             Sum(c) == IF c = 0 THEN 0
                       ELSE Sum(c - 1)
                            + (IF c % 2 = 1 THEN 1 ELSE -1) * X[1][c] * Det(Minor(X, c))
         IN  Sum(Len(X))

RECURSIVE SqrtBetween(_, _, _)
\* the largest r of lo..hi with r * r <= x, by bisection
SqrtBetween(x, lo, hi) ==
    IF lo >= hi THEN lo
    ELSE LET mid == (lo + hi + 1) \div 2
         IN  IF mid * mid <= x THEN SqrtBetween(x, mid, hi)
             ELSE SqrtBetween(x, lo, mid - 1)

\* math.Sqrt on a non-negative value
Sqrt(x) == SqrtBetween(x, 0, x)

\* slip: the root of the determinant is not taken
latticeVolumeNoRoot(basis) == Abs(Det(MatMul(basis, basis)))

\* slip: the determinant of B itself, its sign kept and no product formed
latticeVolumeSigned(basis) == Det(basis)

\* latticeVolume: BT.T() returns a view that is discarded, so BT stays a copy
\* of B and BBT is B * B
latticeVolume(basis) ==
    LET B == basis
        BT == B
        BBT == MatMul(B, BT)
        det == Det(BBT)
    IN  Sqrt(Abs(det))

\* the example basis of the specification
ExampleBasis == <<<<2, 0>>, <<0, 3>>>>

\* the bases the volume is taken of
VolBases ==
    UNION {genRandomBasis(r, MaxCoef) : r \in 1..MaxRank} \cup {ExampleBasis}

\* the integer multiples a row is added with
RowMultipliers == {-2, 1}

SwapRows(B, i, j) ==
    [r \in 1..Len(B) |-> IF r = i THEN B[j] ELSE IF r = j THEN B[i] ELSE B[r]]

NegateRow(B, i) ==
    [r \in 1..Len(B) |-> IF r = i THEN [c \in 1..Len(B) |-> -B[i][c]] ELSE B[r]]

AddRow(B, i, j, k) ==
    [r \in 1..Len(B) |->
        IF r = i THEN [c \in 1..Len(B) |-> B[i][c] + k * B[j][c]] ELSE B[r]]

VolStart ==
    /\ vBasis \in VolBases
    /\ vOp = "none"
    /\ vPrev = <<>>
    /\ vVol0 = -1
    /\ vVol = -1

\* vol := latticeVolume(basis)
VolMeasure ==
    /\ vOp = "none"
    /\ vVol0 = -1
    /\ vVol0' = latticeVolume(vBasis)
    /\ vVol' = vVol0'
    /\ UNCHANGED <<vBasis, vOp, vPrev>>
    /\ UNCHANGED <<notVolVars>>

\* two rows are swapped and the volume is taken again
VolSwap ==
    /\ vOp = "none"
    /\ vVol0 # -1
    /\ \E i \in 1..Len(vBasis) : \E j \in (i + 1)..Len(vBasis) :
          vBasis' = SwapRows(vBasis, i, j)
    /\ vPrev' = vBasis
    /\ vOp' = "swap"
    /\ vVol' = latticeVolume(vBasis')
    /\ UNCHANGED vVol0
    /\ UNCHANGED <<notVolVars>>

\* a row is negated and the volume is taken again
VolNegate ==
    /\ vOp = "none"
    /\ vVol0 # -1
    /\ \E i \in 1..Len(vBasis) : vBasis' = NegateRow(vBasis, i)
    /\ vPrev' = vBasis
    /\ vOp' = "negate"
    /\ vVol' = latticeVolume(vBasis')
    /\ UNCHANGED vVol0
    /\ UNCHANGED <<notVolVars>>

\* a multiple of a row is added to another row and the volume is taken again
VolAdd ==
    /\ vOp = "none"
    /\ vVol0 # -1
    /\ \E i \in 1..Len(vBasis) : \E j \in 1..Len(vBasis) \ {i} :
          \E k \in RowMultipliers : vBasis' = AddRow(vBasis, i, j, k)
    /\ vPrev' = vBasis
    /\ vOp' = "add"
    /\ vVol' = latticeVolume(vBasis')
    /\ UNCHANGED vVol0
    /\ UNCHANGED <<notVolVars>>

VolNext ==
    \/ VolMeasure
    \/ VolSwap
    \/ VolNegate
    \/ VolAdd

(***************************************************************************)
(* Texts and the strings/strconv/big functions the codec uses.             *)
(***************************************************************************)
\* unicode.IsSpace, over the lexemes of the model
Spaces == {" ", "\n", "\t", "\r"}

RECURSIVE TrimLeft(_, _)
\* strings.TrimLeft
TrimLeft(s, cutset) ==
    IF s # <<>> /\ Head(s) \in cutset THEN TrimLeft(Tail(s), cutset) ELSE s

RECURSIVE TrimRight(_, _)
\* strings.TrimRight
TrimRight(s, cutset) ==
    IF s # <<>> /\ s[Len(s)] \in cutset
    THEN TrimRight(SubSeq(s, 1, Len(s) - 1), cutset)
    ELSE s

\* strings.Trim
Trim(s, cutset) == TrimRight(TrimLeft(s, cutset), cutset)

\* strings.TrimSpace
TrimSpace(s) == Trim(s, Spaces)

\* strings.Contains for a one-lexeme substring
Contains(s, c) == \E i \in 1..Len(s) : s[i] = c

\* strings.HasPrefix and strings.HasSuffix for a one-lexeme affix
HasPrefix(s, c) == s # <<>> /\ s[1] = c
HasSuffix(s, c) == s # <<>> /\ s[Len(s)] = c

RECURSIVE SplitFrom(_, _, _)
\* the pieces of s after the piece cur, which is being read
SplitFrom(s, sep, cur) ==
    IF s = <<>> THEN <<cur>>
    ELSE IF Head(s) = sep THEN <<cur>> \o SplitFrom(Tail(s), sep, <<>>)
    ELSE SplitFrom(Tail(s), sep, Append(cur, Head(s)))

\* strings.Split: the empty text gives one empty piece
Split(s, sep) == SplitFrom(s, sep, <<>>)

RECURSIVE FieldsFrom(_, _)
\* the fields of s after the field cur, which is being read
FieldsFrom(s, cur) ==
    IF s = <<>> THEN (IF cur = <<>> THEN <<>> ELSE <<cur>>)
    ELSE IF Head(s) \in Spaces
         THEN (IF cur = <<>> THEN <<>> ELSE <<cur>>) \o FieldsFrom(Tail(s), <<>>)
         ELSE FieldsFrom(Tail(s), Append(cur, Head(s)))

\* strings.Fields
Fields(s) == FieldsFrom(s, <<>>)

DigitChars == <<"0", "1", "2", "3", "4", "5", "6", "7", "8", "9">>

IsDigit(c) == \E d \in 1..10 : DigitChars[d] = c

DigitVal(c) == (CHOOSE d \in 1..10 : DigitChars[d] = c) - 1

RECURSIVE Digits(_)
\* the decimal digits of n >= 0
Digits(n) ==
    IF n < 10 THEN <<DigitChars[n + 1]>>
    ELSE Append(Digits(n \div 10), DigitChars[(n % 10) + 1])

\* big.Int.String
BigIntString(x) == IF x < 0 THEN <<"-">> \o Digits(-x) ELSE Digits(x)

RECURSIVE DigitsValue(_, _)
\* the value of the digit string s read after the value acc
DigitsValue(s, acc) ==
    IF s = <<>> THEN acc ELSE DigitsValue(Tail(s), 10 * acc + DigitVal(Head(s)))

\* the lexemes of s are all decimal digits, and there is one at least
AllDigits(s) == s # <<>> /\ \A i \in 1..Len(s) : IsDigit(s[i])

\* big.Int.SetString(coord, 10): an optional sign and decimal digits
SetString(coord) ==
    LET signed == coord # <<>> /\ Head(coord) \in {"+", "-"}
        body == IF signed THEN Tail(coord) ELSE coord
    IN  IF AllDigits(body)
        THEN [ok |-> TRUE,
              val |-> IF signed /\ Head(coord) = "-"
                      THEN -DigitsValue(body, 0) ELSE DigitsValue(body, 0)]
        ELSE [ok |-> FALSE, val |-> 0]

(***************************************************************************)
(* float64 values. A finite value is kept exactly; NaN and +Inf are values *)
(* of their own. A profile entry is a literal, or log2(sqrt(x)) of an      *)
(* exact positive x kept as the fraction num/den times 0.99^decay, or half *)
(* of a parsed value.                                                      *)
(***************************************************************************)
Num(n) == [t |-> "num", v |-> n]
NaN == [t |-> "nan", v |-> 0]
PosInf == [t |-> "inf", v |-> 0]
NegInf == [t |-> "neginf", v |-> 0]

\* val * val
FSquare(f) == IF f.t = "num" THEN Num(f.v * f.v)
              ELSE IF f.t = "nan" THEN NaN ELSE PosInf

\* norm += x, for a norm and an x that are not negative
FAdd(f, g) == IF f.t = "nan" \/ g.t = "nan" THEN NaN
              ELSE IF f.t = "inf" \/ g.t = "inf" THEN PosInf
              ELSE Num(f.v + g.v)

\* f >= 0 as float64 compares: false for NaN
FNonNegative(f) == f.t = "inf" \/ (f.t = "num" /\ f.v >= 0)

\* strconv.ParseFloat(coord, 64) on the tokens of the model: a signed
\* decimal integer, "nan", or a signed "inf"
ParseFloat(coord) ==
    LET signed == coord # <<>> /\ Head(coord) \in {"+", "-"}
        body == IF signed THEN Tail(coord) ELSE coord
    IN  IF AllDigits(body)
        THEN [ok |-> TRUE,
              val |-> Num(IF signed /\ Head(coord) = "-"
                          THEN -DigitsValue(body, 0) ELSE DigitsValue(body, 0))]
        ELSE IF coord = <<"nan">> THEN [ok |-> TRUE, val |-> NaN]
        ELSE IF body = <<"inf">>
             THEN [ok |-> TRUE,
                   val |-> IF signed /\ Head(coord) = "-" THEN NegInf ELSE PosInf]
        ELSE [ok |-> FALSE, val |-> Num(0)]

RECURSIVE GCD(_, _)
GCD(a, b) == IF b = 0 THEN a ELSE GCD(b, a % b)

\* the fraction n/d with d > 0, in lowest terms
Frac(n, d) ==
    LET g == GCD(Abs(n), Abs(d))
        sg == IF d < 0 THEN -1 ELSE 1
    IN  <<sg * (n \div g), sg * (d \div g)>>

FracAdd(x, y) == Frac(x[1] * y[2] + y[1] * x[2], x[2] * y[2])
FracSub(x, y) == Frac(x[1] * y[2] - y[1] * x[2], x[2] * y[2])
FracMul(x, y) == Frac(x[1] * y[1], x[2] * y[2])
FracDiv(x, y) == Frac(x[1] * y[2], x[2] * y[1])

\* make([]float64, n): n zeros
ZeroProfile(n) == [i \in 1..n |-> Num(0)]

\* math.Log2(math.Sqrt(x)) for x = num/den * 0.99^decay
Log2Sqrt(x, decay) ==
    IF x[1] = 0 THEN NegInf
    ELSE IF x[1] = x[2] /\ decay = 0 THEN Num(0)
    ELSE [t |-> "log2sqrt", num |-> x[1], den |-> x[2], decay |-> decay]

\* logSqNorm / 2.0
Halved(f) ==
    IF f.t # "num" THEN f
    ELSE IF f.v % 2 = 0 THEN Num(f.v \div 2)
    ELSE [t |-> "half", v |-> f.v]

\* the dot product of two vectors of fractions
FracDot(u, w) ==
    LET RECURSIVE Acc(_)
        Acc(j) == IF j = 0 THEN <<0, 1>>
                  ELSE FracAdd(Acc(j - 1), FracMul(u[j], w[j]))
    IN  Acc(Len(u))

RECURSIVE Orthogonalize(_, _, _)
\* row i of B made orthogonal to the k..i-1 orthogonal vectors of ortho; a
\* vector of squared norm 0 (not above 1e-10) is skipped
Orthogonalize(Bi, ortho, k) ==
    IF k > Len(ortho) THEN Bi
    ELSE LET rest == Orthogonalize(Bi, ortho, k + 1)
             dot == FracDot(Bi, ortho[k])
             orthogNormSq == FracDot(ortho[k], ortho[k])
         IN  IF orthogNormSq[1] > 0
             THEN LET coeff == FracDiv(dot, orthogNormSq)
                  IN  [j \in 1..Len(Bi) |->
                          FracSub(rest[j], FracMul(coeff, ortho[k][j]))]
             ELSE rest

RECURSIVE OrthoBasis(_, _)
\* the first i orthogonal vectors
OrthoBasis(B, i) ==
    IF i = 0 THEN <<>>
    ELSE LET prev == OrthoBasis(B, i - 1)
         IN  Append(prev, Orthogonalize(B[i], prev, 1))

\* computeGramSchmidtProfile: rows are cut or zero-padded to n columns
computeGramSchmidtProfile(basis) ==
    LET n == Len(basis)
        B == [i \in 1..n |-> [j \in 1..n |->
                 IF j <= Len(basis[i]) THEN <<basis[i][j], 1>> ELSE <<0, 1>>]]
        ortho == OrthoBasis(B, n)
    IN  [i \in 1..n |->
            LET norm == FracDot(ortho[i], ortho[i])
            IN  IF norm[1] > 0 THEN Log2Sqrt(norm, 0) ELSE Num(-50)]

(***************************************************************************)
(* The basis codec: writeBasisToFile and parseMatrixOutput.                *)
(***************************************************************************)
RECURSIVE RowCells(_, _, _)
\* the cells j..cols of a row, a space after each but the last
RowCells(row, j, cols) ==
    IF j > cols THEN <<>>
    ELSE BigIntString(row[j]) \o (IF j < cols THEN <<" ">> ELSE <<>>)
         \o RowCells(row, j + 1, cols)

RECURSIVE RowCellsNoSep(_, _, _)
\* slip: no space between the cells
RowCellsNoSep(row, j, cols) ==
    IF j > cols THEN <<>>
    ELSE BigIntString(row[j]) \o RowCellsNoSep(row, j + 1, cols)

RECURSIVE RowsText(_, _, _, _)
\* the rows i..rows, a newline after each but the last
RowsText(basis, i, rows, cols) ==
    IF i > rows THEN <<>>
    ELSE <<"[">> \o RowCells(basis[i], 1, cols) \o <<"]">>
         \o (IF i < rows THEN <<"\n">> ELSE <<>>)
         \o RowsText(basis, i + 1, rows, cols)

RECURSIVE RowsTextNoSep(_, _, _, _)
RowsTextNoSep(basis, i, rows, cols) ==
    IF i > rows THEN <<>>
    ELSE <<"[">> \o RowCellsNoSep(basis[i], 1, cols) \o <<"]">>
         \o (IF i < rows THEN <<"\n">> ELSE <<>>)
         \o RowsTextNoSep(basis, i + 1, rows, cols)

\* slip: the cells of a row written without the separating space
writeBasisToFileNoSep(basis) ==
    <<"[">> \o RowsTextNoSep(basis, 1, Len(basis), Len(basis[1])) \o <<"]", "\n">>

\* the text writeBasisToFile writes for a basis with a first row
writeBasisToFile(basis) ==
    LET rows == Len(basis)
        cols == Len(basis[1])
    IN  <<"[">> \o RowsText(basis, 1, rows, cols) \o <<"]", "\n">>

RECURSIVE ParseCoords(_)
\* the coordinates that SetString accepts; the others are skipped
ParseCoords(coords) ==
    IF coords = <<>> THEN <<>>
    ELSE LET r == SetString(Head(coords))
         IN  (IF r.ok THEN <<r.val>> ELSE <<>>) \o ParseCoords(Tail(coords))

RECURSIVE ParseLines(_)
\* the rows parseMatrixOutput appends for the lines
ParseLines(lines) ==
    IF lines = <<>> THEN <<>>
    ELSE LET line == TrimSpace(Head(lines))
             inner == Trim(line, {"[", "]"})
             coords == Fields(inner)
             row == ParseCoords(coords)
             rest == ParseLines(Tail(lines))
         IN  IF line = <<>> \/ (~HasPrefix(line, "[") /\ ~Contains(line, "["))
             THEN rest
             ELSE IF inner = <<>> THEN rest
             ELSE IF Len(coords) = 0 THEN rest
             ELSE IF Len(row) > 0 THEN <<row>> \o rest
             ELSE rest

\* parseMatrixOutput; the nil matrix is the empty sequence
parseMatrixOutput(output) == ParseLines(Split(TrimSpace(output), "\n"))

RECURSIVE LineCoords(_)
\* the coordinates parseMatrixOutput reads on each line it does not skip,
\* before SetString sees them
LineCoords(lines) ==
    IF lines = <<>> THEN <<>>
    ELSE LET line == TrimSpace(Head(lines))
             inner == Trim(line, {"[", "]"})
             coords == Fields(inner)
             rest == LineCoords(Tail(lines))
         IN  IF line = <<>> \/ (~HasPrefix(line, "[") /\ ~Contains(line, "["))
             THEN rest
             ELSE IF inner = <<>> \/ Len(coords) = 0 THEN rest
             ELSE <<coords>> \o rest

\* the entries of the bases that are written and parsed
CodecEntries == {-12, 0, 7}

\* the bases that are written and parsed: a row at least, columns or none
CodecBases ==
    UNION {Matrices(r, c, CodecEntries) : r \in 1..MaxRows, c \in 0..MaxCols}

CodecStart ==
    /\ cpc = "start"
    /\ cBasis \in CodecBases
    /\ cText = <<>>
    /\ cParsed = <<>>

\* writeBasisToFile(basis, filename) with a file that can be created
CodecWrite ==
    /\ cpc = "start"
    /\ cText' = writeBasisToFile(cBasis)
    /\ cpc' = "written"
    /\ UNCHANGED <<cBasis, cParsed>>
    /\ UNCHANGED <<notCodecVars>>

\* parseMatrixOutput on the text of the file
CodecParse ==
    /\ cpc = "written"
    /\ cParsed' = parseMatrixOutput(cText)
    /\ cpc' = "parsed"
    /\ UNCHANGED <<cBasis, cText>>
    /\ UNCHANGED <<notCodecVars>>

CodecNext ==
    \/ CodecWrite
    \/ CodecParse

(***************************************************************************)
(* The reduction oracle: svpOracle and runBKZ, simulated, process-backed   *)
(* (one engine stage) and process-backed in two stages (bkz, then gso).    *)
(***************************************************************************)
SvpTmpFile == "/tmp/lattice_basis.txt"
BkzTmpFile == "/tmp/lattice_basis_bkz.txt"
BkzInputFile == "/tmp/lattice_basis_bkz_in.txt"
BkzReducedFile == "/tmp/lattice_basis_bkz_out.txt"

SimKinds == {"svp_sim", "bkz_sim"}
ProcessKinds == {"svp", "bkz", "bkz2"}
BkzKinds == {"bkz_sim", "bkz", "bkz2"}
QueryKinds == SimKinds \cup ProcessKinds

\* the file a query writes its basis to
TmpFileOf(kind) ==
    IF kind = "svp" THEN SvpTmpFile
    ELSE IF kind = "bkz" THEN BkzTmpFile ELSE BkzInputFile

\* the first engine mode of a query
ModeOf(kind) == IF kind = "svp" THEN "svp" ELSE "bkz"

\* no temporary file
NoFiles == [p \in {} |-> <<>>]

\* os.Create / os.WriteFile: the file exists with this content
FileWrite(fs, path, text) ==
    [p \in DOMAIN fs \cup {path} |-> IF p = path THEN text ELSE fs[p]]

\* os.Remove: an absent file is an error that is ignored
FileRemove(fs, path) == [p \in DOMAIN fs \ {path} |-> fs[p]]

\* slip: the os.Remove calls are not deferred and do not run on return
RunDefersSkipped(fs, defers) == fs

RECURSIVE RunDefers(_, _)
\* the deferred os.Remove calls run when the function returns
RunDefers(fs, defers) ==
    IF defers = <<>> THEN fs
    ELSE RunDefers(FileRemove(fs, Head(defers)), Tail(defers))

\* a []float64 result; nil is a slice of its own
Slice(prof) == [isNil |-> FALSE, prof |-> prof]
NilSlice == [isNil |-> TRUE, prof |-> <<>>]

\* what each implementation returns on its error paths
FailureValue(kind, rank) ==
    IF kind = "svp" THEN Num(0)
    ELSE IF kind = "bkz" THEN Slice(ZeroProfile(rank))
    ELSE NilSlice

\* slip: the norm of the last row is returned
svpOracleSimLastRow(basis) ==
    LET size == Len(basis)
        RECURSIVE Norm(_)
        Norm(j) == IF j = 0 THEN 0
                   ELSE Norm(j - 1) + basis[size][j] * basis[size][j]
    IN  Num(Norm(size))

\* svpOracle, simulated: the squared norm of the first row
svpOracleSim(basis) ==
    LET size == Len(basis)
        RECURSIVE Norm(_)
        Norm(j) == IF j = 0 THEN 0 ELSE Norm(j - 1) + basis[1][j] * basis[1][j]
    IN  Num(Norm(size))

\* slip: the decay is applied for block sizes above 2 only
runBKZSimBetaDecay(basis, beta) ==
    LET size == Len(basis)
    IN  Slice([i \in 1..size |->
            LET RECURSIVE Norm(_)
                Norm(j) == IF j = 0 THEN 0
                           ELSE Norm(j - 1) + basis[i][j] * basis[i][j]
            IN  Log2Sqrt(<<Norm(size), 1>>, IF beta > 2 THEN i - 1 ELSE 0)])

\* runBKZ, simulated: log2(sqrt(norm of row i * 0.99^i)), beta unused
runBKZSim(basis, beta) ==
    LET size == Len(basis)
    IN  Slice([i \in 1..size |->
            LET RECURSIVE Norm(_)
                Norm(j) == IF j = 0 THEN 0
                           ELSE Norm(j - 1) + basis[i][j] * basis[i][j]
            IN  Log2Sqrt(<<Norm(size), 1>>, i - 1)])

RECURSIVE SumSquares(_)
\* norm += val * val for the coordinates ParseFloat accepts
SumSquares(coords) ==
    IF coords = <<>> THEN Num(0)
    ELSE LET r == ParseFloat(coords[Len(coords)])
             before == SumSquares(SubSeq(coords, 1, Len(coords) - 1))
         IN  IF r.ok THEN FAdd(before, FSquare(r.val)) ELSE before

\* slip: an empty vector is answered with the radius squared
svpOracleParseEmptyAsRadius(output, radius) ==
    LET outputStr == TrimSpace(output)
        vectorStr == SubSeq(outputStr, 2, Len(outputStr) - 1)
    IN  IF HasPrefix(outputStr, "[") /\ HasSuffix(outputStr, "]")
            /\ Fields(vectorStr) # <<>>
        THEN [ret |-> SumSquares(Fields(vectorStr)), fail |-> "none",
              profiled |-> FALSE]
        ELSE [ret |-> Num(radius * radius), fail |-> "parse", profiled |-> FALSE]

\* svpOracle, process-backed, from the engine's output on
svpOracleParse(output, radius) ==
    LET outputStr == TrimSpace(output)
    IN  IF HasPrefix(outputStr, "[") /\ HasSuffix(outputStr, "]")
        THEN LET vectorStr == SubSeq(outputStr, 2, Len(outputStr) - 1)
             IN  [ret |-> SumSquares(Fields(vectorStr)), fail |-> "none",
                  profiled |-> FALSE]
        ELSE [ret |-> Num(radius * radius), fail |-> "parse", profiled |-> FALSE]

\* slip: the row count of the reduced basis is not compared with the rank
runBKZParseNoRankCheck(output, rank) ==
    LET reducedBasis == parseMatrixOutput(output)
    IN  IF reducedBasis = <<>>
        THEN [ret |-> Slice(ZeroProfile(rank)), fail |-> "parse", profiled |-> FALSE]
        ELSE [ret |-> Slice(computeGramSchmidtProfile(reducedBasis)),
              fail |-> "none", profiled |-> TRUE]

\* runBKZ of lab2.go, from the engine's output on
runBKZParse(output, rank) ==
    LET reducedBasis == parseMatrixOutput(output)
    IN  IF reducedBasis = <<>> \/ Len(reducedBasis) # rank
        THEN [ret |-> Slice(ZeroProfile(rank)),
              fail |-> IF reducedBasis = <<>> THEN "parse" ELSE "mismatch",
              profiled |-> FALSE]
        ELSE [ret |-> Slice(computeGramSchmidtProfile(reducedBasis)),
              fail |-> "none", profiled |-> TRUE]

RECURSIVE GsoLinesProfile(_)
\* the profile entries the two-stage runBKZ appends for the gso lines
GsoLinesProfile(lines) ==
    IF lines = <<>> THEN <<>>
    ELSE LET line == Head(lines)
             parts == Split(line, "=")
             r == ParseFloat(TrimSpace(parts[2]))
             rest == GsoLinesProfile(Tail(lines))
         IN  IF HasPrefix(TrimSpace(line), "log(||b_") /\ Len(parts) = 2 /\ r.ok
             THEN <<Halved(r.val)>> \o rest
             ELSE rest

\* the two-stage runBKZ, from the gso output on
runBKZGsoParse(gsoOutput) ==
    [ret |-> Slice(GsoLinesProfile(Split(TrimSpace(gsoOutput), "\n"))),
     fail |-> "none", profiled |-> TRUE]

(***************************************************************************)
(* The inputs of a query and the outputs of the engine.                    *)
(***************************************************************************)
IdentityBasis(r) == [i \in 1..r |-> [j \in 1..r |-> IF i = j THEN 1 ELSE 0]]

\* a q-ary basis of rank r: genBasis(1, r-1, 3, A) with every draw 2
QarySample(r) == genBasis(1, r - 1, 3, [i \in 1..(r - 1) |-> <<2>>])

\* the bases of the queries: none, identities and q-ary bases
QueryBases ==
    {<<>>} \cup {IdentityBasis(r) : r \in 1..MaxQueryRank}
           \cup {QarySample(r) : r \in 2..MaxQueryRank}

\* the block sizes of the queries
Betas == {2, 20}

\* a reduced basis with negative entries
ReducedSample(r) ==
    [i \in 1..r |-> [j \in 1..r |->
        IF i = j THEN 2 ELSE IF j = i + 1 THEN -1 ELSE 0]]

ReducedBases ==
    UNION {{IdentityBasis(r), ReducedSample(r)} : r \in 1..MaxQueryRank}

\* the engine's own layout of a matrix: a space after every cell and the
\* closing bracket on a line of its own
FplllMatrixText(M) ==
    LET RECURSIVE Cells(_, _)
        Cells(row, j) == IF j > Len(row) THEN <<>>
                         ELSE BigIntString(row[j]) \o <<" ">> \o Cells(row, j + 1)
        RECURSIVE Rows(_)
        Rows(i) == IF i > Len(M) THEN <<>>
                   ELSE <<"[">> \o Cells(M[i], 1) \o <<"]", "\n">> \o Rows(i + 1)
    IN  <<"[">> \o Rows(1) \o <<"]", "\n">>

\* a vector in brackets
VectorText(v) == <<"[">> \o RowCells(v, 1, Len(v)) \o <<"]", "\n">>

\* a reduced basis whose first row is printed as the cells given
FirstRowAs(M, cells) ==
    <<"[", "[">> \o cells \o <<"]">>
        \o (IF Len(M) > 1 THEN <<"\n">> ELSE <<>>)
        \o RowsText(M, 2, Len(M), Len(M[1])) \o <<"]", "\n">>

\* a reduced basis whose first cell is printed as a token that is no integer
GarbledBasisText(M) ==
    FirstRowAs(M, <<"x">> \o (IF Len(M[1]) > 1 THEN <<" ">> ELSE <<>>)
                         \o RowCells(M[1], 2, Len(M[1])))

\* a reduced basis whose first row is printed without its last cell
RaggedBasisText(M) == FirstRowAs(M, RowCells(M[1], 1, Len(M[1]) - 1))

\* the lexemes of a garbled output
OutLexemes == {"[", "]", " ", "\n", "1", "x", "nan"}

RECURSIVE Texts(_)
\* the texts of at most k lexemes
Texts(k) ==
    IF k = 0 THEN {<<>>}
    ELSE LET shorter == Texts(k - 1)
         IN  shorter \cup {Append(t, c) : t \in shorter, c \in OutLexemes}

\* what the engine may print in svp and bkz mode: any short text, a reduced
\* basis in either layout, or a vector
EngineOutputs ==
    Texts(MaxOutLen)
        \cup {writeBasisToFile(M) : M \in ReducedBases}
        \cup {FplllMatrixText(M) : M \in ReducedBases}
        \cup {VectorText(M[1]) : M \in ReducedBases}
        \cup {GarbledBasisText(M) : M \in ReducedBases}
        \cup {RaggedBasisText(M) : M \in ReducedBases}

\* what the first stage of the two-stage runBKZ may print
StageOutputs == {<<>>} \cup {writeBasisToFile(M) : M \in ReducedBases}

\* the lines of a gso output: two well-formed, one with a garbled value, one
\* that is no profile line
GsoLines ==
    {<<"log(||b_", "0", "*||)", " ", "=", " ", "4">>,
     <<"log(||b_", "1", "*||)", " ", "=", " ", "3">>,
     <<"log(||b_", "1", "*||)", " ", "=", " ", "x">>,
     <<"x">>}

RECURSIVE GsoTexts(_)
\* the gso outputs of at most k lines
GsoTexts(k) ==
    IF k = 0 THEN {<<>>}
    ELSE LET shorter == GsoTexts(k - 1)
         IN  shorter \cup {t \o l \o <<"\n">> : t \in shorter, l \in GsoLines}

GsoOutputs == GsoTexts(MaxGsoLines)

(***************************************************************************)
(* The oracle as a state machine: one query at a time, the temporary files *)
(* persisting between queries.                                             *)
(***************************************************************************)
QueryStart ==
    /\ qpc = "idle" /\ qKind = "none" /\ qBasis = <<>>
    /\ qRadius = 0 /\ qBeta = 0
    /\ qFiles = NoFiles /\ qCreated = {} /\ qDefers = <<>>
    /\ qRuns = <<>> /\ qOutput = <<>>
    /\ qRet = Num(0) /\ qFail = "none" /\ qProfiled = FALSE

\* the locals of a query that no step of it has set yet
QueryLocals(kind, basis, radius, beta) ==
    /\ qKind' = kind /\ qBasis' = basis /\ qRadius' = radius /\ qBeta' = beta
    /\ qCreated' = {} /\ qDefers' = <<>> /\ qRuns' = <<>> /\ qOutput' = <<>>
    /\ qRet' = Num(0) /\ qFail' = "none" /\ qProfiled' = FALSE

\* the function returns: its value, the kind of failure, the defers run
QueryReturn(ret, fail, profiled) ==
    /\ qpc' = "returned"
    /\ qRet' = ret /\ qFail' = fail /\ qProfiled' = profiled
    /\ qFiles' = RunDefers(qFiles, qDefers)
    /\ qDefers' = <<>>

\* slip: the reduced basis is copied over the caller's basis
BasisOverwritten(basis, reducedBasis) == reducedBasis

\* reducedBasis := parseMatrixOutput(string(output)) is a slice of its own:
\* the rows of basis are read, never assigned
BasisAfterParse(basis, reducedBasis) == basis

\* a failed invocation is started once more
InvokeRetried(runs, mode) == runs \o <<mode, mode>>

\* exec.Command(...).Output(): the engine is started, once
Invoke(runs, mode) == Append(runs, mode)

\* a caller invokes svpOracle(basis, radius)
QCallSvp ==
    /\ qpc = "idle"
    /\ \E kind \in {"svp_sim", "svp"}, basis \in QueryBases, radius \in 0..MaxRadius :
          QueryLocals(kind, basis, radius, 0)
    /\ qpc' = "called"
    /\ UNCHANGED <<qFiles, notQueryVars>>

\* a caller invokes runBKZ(basis, beta)
QCallBkz ==
    /\ qpc = "idle"
    /\ \E kind \in BkzKinds, basis \in QueryBases, beta \in Betas :
          QueryLocals(kind, basis, 0, beta)
    /\ qpc' = "called"
    /\ UNCHANGED <<qFiles, notQueryVars>>

\* a simulated svpOracle or runBKZ computes its result from the basis
QSimulate ==
    /\ qpc = "called" /\ qKind \in SimKinds /\ Len(qBasis) >= 1
    /\ QueryReturn(IF qKind = "svp_sim" THEN svpOracleSim(qBasis)
                                        ELSE runBKZSim(qBasis, qBeta),
                   "none", qKind = "bkz_sim")
    /\ UNCHANGED <<qKind, qBasis, qRadius, qBeta, qCreated, qRuns, qOutput,
                   notQueryVars>>

\* mat.NewDense(0, 0, nil) panics: a simulated query of a zero-row basis
QSimulatePanic ==
    /\ qpc = "called" /\ qKind \in SimKinds /\ Len(qBasis) = 0
    /\ qpc' = "panic"
    /\ UNCHANGED <<qKind, qBasis, qRadius, qBeta, qFiles, qCreated, qDefers,
                   qRuns, qOutput, qRet, qFail, qProfiled,
                   notQueryVars>>

\* writeBasisToFile fails in os.Create: no file, the failure value
QCreateFail ==
    /\ qpc = "called" /\ qKind \in ProcessKinds
    /\ QueryReturn(FailureValue(qKind, Len(qBasis)), "write", FALSE)
    /\ UNCHANGED <<qKind, qBasis, qRadius, qBeta, qCreated, qRuns, qOutput,
                   notQueryVars>>

\* writeBasisToFile writes the basis, then the removals are deferred
QWriteBasis ==
    /\ qpc = "called" /\ qKind \in ProcessKinds /\ Len(qBasis) >= 1
    /\ qFiles' = FileWrite(qFiles, TmpFileOf(qKind), writeBasisToFile(qBasis))
    /\ qCreated' = qCreated \cup {TmpFileOf(qKind)}
    /\ qDefers' = IF qKind = "bkz2" THEN <<BkzReducedFile, BkzInputFile>>
                                    ELSE <<TmpFileOf(qKind)>>
    /\ qpc' = "written"
    /\ UNCHANGED <<qKind, qBasis, qRadius, qBeta, qRuns, qOutput, qRet, qFail,
                   qProfiled, notQueryVars>>

\* writeBasisToFile of a zero-row basis: the file is created, then basis[0]
\* panics before anything is written and before any removal is deferred
QWritePanic ==
    /\ qpc = "called" /\ qKind \in ProcessKinds /\ Len(qBasis) = 0
    /\ qFiles' = FileWrite(qFiles, TmpFileOf(qKind), <<>>)
    /\ qCreated' = qCreated \cup {TmpFileOf(qKind)}
    /\ qpc' = "panic"
    /\ UNCHANGED <<qKind, qBasis, qRadius, qBeta, qDefers, qRuns, qOutput, qRet,
                   qFail, qProfiled, notQueryVars>>

\* the engine cannot be started or exits non-zero
QEngineFail ==
    /\ qpc = "written"
    /\ qRuns' = Invoke(qRuns, ModeOf(qKind))
    /\ QueryReturn(FailureValue(qKind, Len(qBasis)), "engine", FALSE)
    /\ UNCHANGED <<qKind, qBasis, qRadius, qBeta, qCreated, qOutput,
                   notQueryVars>>

\* the engine exits with status 0 and some output
QEngineOk ==
    /\ qpc = "written"
    /\ \E out \in IF qKind = "bkz2" THEN StageOutputs ELSE EngineOutputs :
          qOutput' = out
    /\ qRuns' = Invoke(qRuns, ModeOf(qKind))
    /\ qpc' = "invoked"
    /\ UNCHANGED <<qKind, qBasis, qRadius, qBeta, qFiles, qCreated, qDefers,
                   qRet, qFail, qProfiled, notQueryVars>>

\* the engine never exits: cmd.Output() has no deadline and blocks for ever
QEngineHang ==
    /\ qpc = "written"
    /\ qRuns' = Invoke(qRuns, ModeOf(qKind))
    /\ qpc' = "hung"
    /\ UNCHANGED <<qKind, qBasis, qRadius, qBeta, qFiles, qCreated, qDefers,
                   qOutput, qRet, qFail, qProfiled, notQueryVars>>

\* svpOracle reads the vector off the output
QSvpParse ==
    /\ qpc = "invoked" /\ qKind = "svp"
    /\ LET r == svpOracleParse(qOutput, qRadius)
       IN  QueryReturn(r.ret, r.fail, r.profiled)
    /\ UNCHANGED <<qKind, qBasis, qRadius, qBeta, qCreated, qRuns, qOutput,
                   notQueryVars>>

\* runBKZ parses the reduced basis and computes its profile
QBkzParse ==
    /\ qpc = "invoked" /\ qKind = "bkz"
    /\ LET r == runBKZParse(qOutput, Len(qBasis))
       IN  QueryReturn(r.ret, r.fail, r.profiled)
    /\ qBasis' = BasisAfterParse(qBasis, parseMatrixOutput(qOutput))
    /\ UNCHANGED <<qKind, qRadius, qBeta, qCreated, qRuns, qOutput,
                   notQueryVars>>

\* the two-stage runBKZ saves the reduced basis for the second stage
QWriteReduced ==
    /\ qpc = "invoked" /\ qKind = "bkz2"
    /\ qFiles' = FileWrite(qFiles, BkzReducedFile, qOutput)
    /\ qCreated' = qCreated \cup {BkzReducedFile}
    /\ qpc' = "reduced"
    /\ UNCHANGED <<qKind, qBasis, qRadius, qBeta, qDefers, qRuns, qOutput, qRet,
                   qFail, qProfiled, notQueryVars>>

\* os.WriteFile of the reduced basis fails
QWriteReducedFail ==
    /\ qpc = "invoked" /\ qKind = "bkz2"
    /\ QueryReturn(NilSlice, "write", FALSE)
    /\ UNCHANGED <<qKind, qBasis, qRadius, qBeta, qCreated, qRuns, qOutput,
                   notQueryVars>>

\* the second stage cannot be started or exits non-zero
QGsoFail ==
    /\ qpc = "reduced"
    /\ qRuns' = Invoke(qRuns, "gso")
    /\ QueryReturn(NilSlice, "engine", FALSE)
    /\ UNCHANGED <<qKind, qBasis, qRadius, qBeta, qCreated, qOutput,
                   notQueryVars>>

\* the second stage prints a profile and the two-stage runBKZ parses it
QGsoParse ==
    /\ qpc = "reduced"
    /\ \E out \in GsoOutputs :
          /\ qOutput' = out
          /\ LET r == runBKZGsoParse(out)
             IN  QueryReturn(r.ret, r.fail, r.profiled)
    /\ qRuns' = Invoke(qRuns, "gso")
    /\ UNCHANGED <<qKind, qBasis, qRadius, qBeta, qCreated,
                   notQueryVars>>

\* the caller has the result; the next query may start
QDone ==
    /\ qpc = "returned"
    /\ qpc' = "idle"
    /\ QueryLocals("none", <<>>, 0, 0)
    /\ UNCHANGED <<qFiles, notQueryVars>>

QueryNext ==
    \/ QCallSvp \/ QCallBkz
    \/ QSimulate \/ QSimulatePanic
    \/ QCreateFail \/ QWriteBasis \/ QWritePanic
    \/ QEngineFail \/ QEngineOk \/ QEngineHang
    \/ QSvpParse \/ QBkzParse
    \/ QWriteReduced \/ QWriteReducedFail
    \/ QGsoFail \/ QGsoParse
    \/ QDone

(***************************************************************************)
(* The phase of a process-backed query, read off its position.             *)
(***************************************************************************)
Phase ==
    CASE qpc = "idle" -> "Idle"
      [] qpc = "called" -> "Serializing"
      [] qpc \in {"written", "reduced", "hung"} -> "Invoking"
      [] qpc = "invoked" -> "Parsing"
      [] qpc = "returned" -> IF qFail = "none" THEN "Success" ELSE "Failure"
      [] OTHER -> "Panic"

(***************************************************************************)
(* main in the simulated build: runLab1Verification with the simulated     *)
(* svpOracle, then runLab2Verification with the simulated runBKZ.  The log *)
(* is the sequence of the lines printed.                                   *)
(***************************************************************************)
\* n += 2
LabStep == 2

\* beta := 20
LabBeta == 20

\* a line of the log: the lab that printed it (0 for main) and what it is
Line(lab, what) == [lab |-> lab, what |-> what]

\* genRandomBasis(rank) of the simulated build: draws from [-100, 100],
\* here from [-MaxCoef, MaxCoef]
genRandomBasisSigned(rank) == Matrices(rank, rank, (-MaxCoef)..MaxCoef)

\* slip: the native svpOracle and runBKZ are linked
CalleesNative(fn) ==
    CASE fn = "main" -> {"runLab1Verification", "runLab2Verification"}
      [] fn = "runLab1Verification" ->
            {"genBasis", "latticeVolume", "gaussianHeuristic", "svpOracle"}
      [] fn = "runLab2Verification" -> {"genRandomBasis", "runBKZ"}
      [] fn \in {"svpOracle", "runBKZ"} -> {"createFplllMatrix"}
      [] OTHER -> {}

\* the functions of the program that a function of the build without the
\* fplll tag calls
Callees(fn) ==
    CASE fn = "main" -> {"runLab1Verification", "runLab2Verification"}
      [] fn = "runLab1Verification" ->
            {"genBasis", "latticeVolume", "gaussianHeuristic", "svpOracle"}
      [] fn = "runLab2Verification" -> {"genRandomBasis", "runBKZ"}
      [] OTHER -> {}

RECURSIVE Reach(_)
\* the functions entered when the given ones are called
Reach(fns) ==
    LET more == fns \cup UNION {Callees(f) : f \in fns}
    IN  IF more = fns THEN fns ELSE Reach(more)

MainStart ==
    /\ mpc = "start" /\ mN = 0 /\ mBasis = <<>> /\ mSvp = Num(0)
    /\ mProfile = <<>> /\ mLog = <<>> /\ mCalls = {}

\* main prints its banner and calls runLab1Verification
MainBanner ==
    /\ mpc = "start"
    /\ mLog' = mLog \o <<Line(0, "banner"), Line(0, "blank")>>
    /\ mpc' = "lab1"
    /\ mCalls' = mCalls \cup {"main"}
    /\ UNCHANGED <<mN, mBasis, mSvp, mProfile, notMainVars>>

\* runLab1Verification prints its title, the target and the table header
Lab1Header ==
    /\ mpc = "lab1"
    /\ mLog' = mLog \o <<Line(1, "title"), Line(1, "target"),
                         Line(1, "columns"), Line(1, "rule")>>
    /\ mN' = 1
    /\ mpc' = "lab1_loop"
    /\ mCalls' = mCalls \cup {"runLab1Verification"}
    /\ UNCHANGED <<mBasis, mSvp, mProfile, notMainVars>>

\* one iteration: genBasis(n, n, q), the prediction, svpOracle, the row
Lab1Row ==
    /\ mpc = "lab1_loop" /\ mN <= MaxLabDim
    /\ \E A \in Matrices(mN, mN, RandInt(LabQ)) :
          LET basis == genBasis(mN, mN, LabQ, A)
          IN  /\ mBasis' = basis
              /\ mSvp' = svpOracleSim(basis)
    /\ mLog' = Append(mLog, Line(1, "row"))
    /\ mN' = mN + LabStep
    /\ mCalls' = mCalls \cup Reach(Callees("runLab1Verification"))
    /\ UNCHANGED <<mpc, mProfile, notMainVars>>

\* the loop ends: "Lab 1 finished.", and main prints a blank line
Lab1Finish ==
    /\ mpc = "lab1_loop" /\ mN > MaxLabDim
    /\ mLog' = mLog \o <<Line(1, "finished"), Line(0, "blank")>>
    /\ mBasis' = <<>> /\ mSvp' = Num(0)
    /\ mpc' = "lab2"
    /\ UNCHANGED <<mN, mProfile, mCalls, notMainVars>>

\* runLab2Verification prints its title and the note that BKZ is simulated,
\* then draws its basis
Lab2Generate ==
    /\ mpc = "lab2"
    /\ \E basis \in genRandomBasisSigned(Lab2Rank) : mBasis' = basis
    /\ mLog' = mLog \o <<Line(2, "title"), Line(2, "simulated_note"),
                         Line(2, "generating")>>
    /\ mpc' = "lab2_run"
    /\ mCalls' = mCalls \cup {"runLab2Verification"} \cup Reach({"genRandomBasis"})
    /\ UNCHANGED <<mN, mSvp, mProfile, notMainVars>>

\* runBKZ(basis, beta) and the printing of the profile
Lab2Profile ==
    /\ mpc = "lab2_run"
    /\ mProfile' = runBKZSim(mBasis, LabBeta).prof
    /\ mLog' = mLog \o <<Line(2, "running"), Line(2, "bkz_finished"),
                         Line(2, "profile_title"), Line(2, "profile"),
                         Line(2, "finished")>>
    /\ mpc' = "lab2_done"
    /\ mCalls' = mCalls \cup Reach({"runBKZ"})
    /\ UNCHANGED <<mN, mBasis, mSvp, notMainVars>>

\* main prints that all experiments are completed
MainDone ==
    /\ mpc = "lab2_done"
    /\ mLog' = mLog \o <<Line(0, "blank"), Line(0, "completed")>>
    /\ mpc' = "done"
    /\ UNCHANGED <<mN, mBasis, mSvp, mProfile, mCalls, notMainVars>>

MainNext ==
    \/ MainBanner \/ Lab1Header \/ Lab1Row \/ Lab1Finish
    \/ Lab2Generate \/ Lab2Profile \/ MainDone

(***************************************************************************)
(* The native backend: svpOracle and runBKZ over the foreign library, with *)
(* createFplllMatrix marshalling the basis cell by cell.  The foreign      *)
(* allocations are the matrix, the GSO object, the BKZ parameter object    *)
(* and one C string per cell.                                              *)
(***************************************************************************)
NativeKinds == {"svp_native", "bkz_native"}

\* a foreign allocation: what it is and, for a C string, the cell it is of
Alloc(what, i, j) == [what |-> what, i |-> i, j |-> j]
MatrixAlloc == Alloc("matrix", 0, 0)
GsoAlloc == Alloc("gso", 0, 0)
ParamAlloc == Alloc("params", 0, 0)

\* how often an allocation has been released
FreeCount(frees, a) == Cardinality({k \in 1..Len(frees) : frees[k] = a})

\* the allocations made and not released
Live(allocated, frees) == {a \in allocated : FreeCount(frees, a) = 0}

\* slip: the releases run in the order they were registered
DeferFifo(defers, a) == Append(defers, a)

\* slip: the release registered replaces the ones registered before
DeferOnly(defers, a) == <<a>>

\* defer: the release registered last runs first
Defer(defers, a) == <<a>> \o defers

\* what the library may report: a squared norm for svp, the squared
\* Gram-Schmidt norms r(i,i) for bkz
NativeResults(kind, rank) ==
    IF kind = "svp_native" THEN {Num(v) : v \in 0..MaxRadius}
    ELSE {Slice([i \in 1..rank |-> Log2Sqrt(<<r[i], 1>>, 0)]) :
             r \in [1..rank -> {1, 4}]}

NativeStart ==
    /\ npc = "idle" /\ nKind = "none" /\ nBasis = <<>> /\ nArg = 0
    /\ nI = 0 /\ nJ = 0 /\ nAllocated = {} /\ nFrees = <<>> /\ nDefers = <<>>
    /\ nRet = Num(0)

\* a caller invokes the native svpOracle(basis, radius) or runBKZ(basis, beta)
NCall ==
    /\ npc = "idle"
    /\ \E kind \in NativeKinds, basis \in QueryBases :
          /\ nKind' = kind /\ nBasis' = basis
          /\ nArg' \in IF kind = "svp_native" THEN 0..MaxRadius ELSE Betas
    /\ npc' = "called"
    /\ nI' = 0 /\ nJ' = 0 /\ nAllocated' = {} /\ nFrees' = <<>>
    /\ nDefers' = <<>> /\ nRet' = Num(0)
    /\ UNCHANGED notNativeVars

\* createFplllMatrix of a zero-row basis: len(basis[0]) panics before any
\* allocation
NCreatePanic ==
    /\ npc = "called" /\ Len(nBasis) = 0
    /\ npc' = "panic"
    /\ UNCHANGED <<nKind, nBasis, nArg, nI, nJ, nAllocated, nFrees, nDefers,
                   nRet, notNativeVars>>

\* createFplllMatrix allocates the matrix
NMatrixInit ==
    /\ npc = "called" /\ Len(nBasis) >= 1
    /\ nAllocated' = nAllocated \cup {MatrixAlloc}
    /\ nI' = 1 /\ nJ' = 1
    /\ npc' = "marshal"
    /\ UNCHANGED <<nKind, nBasis, nArg, nFrees, nDefers, nRet, notNativeVars>>

\* C.CString(valStr) for the cell (i, j)
NCellString ==
    /\ npc = "marshal" /\ nI <= Len(nBasis)
    /\ nAllocated' = nAllocated \cup {Alloc("str", nI, nJ)}
    /\ npc' = "cell"
    /\ UNCHANGED <<nKind, nBasis, nArg, nI, nJ, nFrees, nDefers, nRet,
                   notNativeVars>>

\* the cell is set from the string, the string is freed, the loops advance
NCellFree ==
    /\ npc = "cell"
    /\ nFrees' = Append(nFrees, Alloc("str", nI, nJ))
    /\ IF nJ < Len(nBasis[nI]) THEN nI' = nI /\ nJ' = nJ + 1
                               ELSE nI' = nI + 1 /\ nJ' = 1
    /\ npc' = "marshal"
    /\ UNCHANGED <<nKind, nBasis, nArg, nAllocated, nDefers, nRet, notNativeVars>>

\* createFplllMatrix returns the matrix; its caller defers the release
NCreateReturn ==
    /\ npc = "marshal" /\ nI > Len(nBasis)
    /\ nDefers' = Defer(nDefers, MatrixAlloc)
    /\ npc' = "created"
    /\ UNCHANGED <<nKind, nBasis, nArg, nI, nJ, nAllocated, nFrees, nRet,
                   notNativeVars>>

\* fplll_gso_init and the deferred fplll_gso_free
NGsoInit ==
    /\ npc = "created"
    /\ nAllocated' = nAllocated \cup {GsoAlloc}
    /\ nDefers' = Defer(nDefers, GsoAlloc)
    /\ npc' = IF nKind = "bkz_native" THEN "gso" ELSE "ready"
    /\ UNCHANGED <<nKind, nBasis, nArg, nI, nJ, nFrees, nRet, notNativeVars>>

\* fplll_bkz_param_init and the deferred fplll_bkz_param_free
NParamInit ==
    /\ npc = "gso"
    /\ nAllocated' = nAllocated \cup {ParamAlloc}
    /\ nDefers' = Defer(nDefers, ParamAlloc)
    /\ npc' = "ready"
    /\ UNCHANGED <<nKind, nBasis, nArg, nI, nJ, nFrees, nRet, notNativeVars>>

\* the library computes, the result is read and the function returns: the
\* deferred releases run
NReturn ==
    /\ npc = "ready"
    /\ nRet' \in NativeResults(nKind, Len(nBasis))
    /\ nFrees' = nFrees \o nDefers
    /\ nDefers' = <<>>
    /\ npc' = "returned"
    /\ UNCHANGED <<nKind, nBasis, nArg, nI, nJ, nAllocated, notNativeVars>>

\* the caller has the result; the next query may start
NDone ==
    /\ npc = "returned"
    /\ npc' = "idle"
    /\ nKind' = "none" /\ nBasis' = <<>> /\ nArg' = 0
    /\ nI' = 0 /\ nJ' = 0 /\ nAllocated' = {} /\ nFrees' = <<>>
    /\ nDefers' = <<>> /\ nRet' = Num(0)
    /\ UNCHANGED notNativeVars

NativeNext ==
    \/ NCall \/ NCreatePanic \/ NMatrixInit \/ NCellString \/ NCellFree
    \/ NCreateReturn \/ NGsoInit \/ NParamInit \/ NReturn \/ NDone

(***************************************************************************)
(* Two queries of the same kind running concurrently on different bases.   *)
(* Each is the process-backed svpOracle or runBKZ; the write of the basis  *)
(* is taken as one step.                                                   *)
(***************************************************************************)
Queries == {1, 2}

\* slip: a path of its own for every query
TmpPathPerQuery(kind, p) == IF p = 1 THEN SvpTmpFile ELSE BkzTmpFile

\* tmpFile: a constant of the function, the same for every call
TmpPath(kind, p) == TmpFileOf(kind)

\* what an engine finds at its path
NotRun == [got |-> "none", text |-> <<>>]
Missing == [got |-> "missing", text |-> <<>>]
Found(text) == [got |-> "text", text |-> text]

\* the bases of concurrent queries: a first row at least
ConcBases == QueryBases \ {<<>>}

ConcStart ==
    /\ kKind \in {"svp", "bkz"}
    /\ kBasis \in {b \in [Queries -> ConcBases] : b[1] # b[2]}
    /\ kpc = [p \in Queries |-> "called"]
    /\ kFiles = NoFiles /\ kWriter = 0
    /\ kIn = [p \in Queries |-> NotRun]
    /\ kFail = [p \in Queries |-> "none"]

\* writeBasisToFile fails in os.Create: the query returns its failure value
KCreateFail(p) ==
    /\ kpc[p] = "called"
    /\ kpc' = [kpc EXCEPT ![p] = "returned"]
    /\ kFail' = [kFail EXCEPT ![p] = "write"]
    /\ UNCHANGED <<kKind, kBasis, kFiles, kWriter, kIn, notConcVars>>

\* writeBasisToFile creates or truncates the file and writes the basis
KWriteBasis(p) ==
    /\ kpc[p] = "called"
    /\ kFiles' = FileWrite(kFiles, TmpPath(kKind, p), writeBasisToFile(kBasis[p]))
    /\ kWriter' = p
    /\ kpc' = [kpc EXCEPT ![p] = "written"]
    /\ UNCHANGED <<kKind, kBasis, kIn, kFail, notConcVars>>

\* the engine started by the query opens the path it was given
KEngine(p) ==
    /\ kpc[p] = "written"
    /\ kIn' = [kIn EXCEPT ![p] =
                  IF TmpPath(kKind, p) \in DOMAIN kFiles
                  THEN Found(kFiles[TmpPath(kKind, p)]) ELSE Missing]
    /\ kpc' = [kpc EXCEPT ![p] = "invoked"]
    /\ UNCHANGED <<kKind, kBasis, kFiles, kWriter, kFail, notConcVars>>

\* the query returns, by the engine's error when the file was missing and
\* with a result made from the engine's output otherwise; the deferred
\* os.Remove runs
KReturn(p) ==
    /\ kpc[p] = "invoked"
    /\ kFail' = [kFail EXCEPT ![p] = IF kIn[p] = Missing THEN "engine" ELSE "none"]
    /\ kFiles' = FileRemove(kFiles, TmpPath(kKind, p))
    /\ kpc' = [kpc EXCEPT ![p] = "returned"]
    /\ UNCHANGED <<kKind, kBasis, kWriter, kIn, notConcVars>>

ConcNext ==
    \E p \in Queries :
        \/ KCreateFail(p) \/ KWriteBasis(p) \/ KEngine(p) \/ KReturn(p)

(***************************************************************************)
(* gaussianHeuristic(vol, rank) = sqrt(n/(2*pi*e)) * vol^(1/n) in float64, *)
(* for integer-valued vol.  A value that has no closed form is kept as a   *)
(* term; the special cases of math.Sqrt, math.Pow and the product are      *)
(* those of IEEE 754; big.NewFloat panics on NaN.                          *)
(***************************************************************************)
\* math.Sqrt(n / (2 * math.Pi * math.E))
GhCoefficient(rank) ==
    IF rank < 0 THEN NaN
    ELSE IF rank = 0 THEN Num(0)
    ELSE [t |-> "coef", rank |-> rank]

\* math.Pow(volFloat64, 1.0/n)
GhPow(vol, rank) ==
    IF rank = 0                              \* the exponent is +Inf
    THEN IF Abs(vol) = 1 THEN Num(1)
         ELSE IF vol = 0 THEN Num(0) ELSE PosInf
    ELSE IF vol = 1 THEN Num(1)
    ELSE IF rank = 1 THEN Num(vol)           \* Pow(x, 1) = x
    ELSE IF vol = 0 THEN (IF rank > 0 THEN Num(0) ELSE PosInf)
    ELSE IF vol < 0 /\ rank # -1 THEN NaN    \* a negative base, a fraction
    ELSE [t |-> "pow", vol |-> vol, rank |-> rank]

\* coefficient * volPowerN
GhMul(c, p) ==
    IF c = NaN \/ p = NaN THEN NaN
    ELSE IF c = Num(0) THEN (IF p = PosInf THEN NaN ELSE Num(0))
    ELSE IF p = Num(0) THEN Num(0)
    ELSE IF p = PosInf THEN PosInf
    ELSE [t |-> "gh", c |-> c, p |-> p]

\* the float64 result of gaussianHeuristic before big.NewFloat
GhResult(vol, rank) == GhMul(GhCoefficient(rank), GhPow(vol, rank))

GhStart ==
    /\ hpc = "start"
    /\ hVol \in (-MaxGhVol)..MaxGhVol
    /\ hRank \in (-MaxGhRank)..MaxGhRank
    /\ hRet = Num(0)

\* gaussianHeuristic returns big.NewFloat(result)
GhReturn ==
    /\ hpc = "start" /\ GhResult(hVol, hRank) # NaN
    /\ hRet' = GhResult(hVol, hRank)
    /\ hpc' = "returned"
    /\ UNCHANGED <<hVol, hRank, notGhVars>>

\* big.NewFloat(NaN) panics
GhPanic ==
    /\ hpc = "start" /\ GhResult(hVol, hRank) = NaN
    /\ hpc' = "panic"
    /\ UNCHANGED <<hVol, hRank, hRet, notGhVars>>

GhNext == GhReturn \/ GhPanic

(***************************************************************************)
(* runLab1Verification of the process build: for n = 30, 32, ..., 60 (here *)
(* 1, 1 + LabStep, ... up to MaxLabDim) a random basis, its volume, the    *)
(* prediction, one svpOracle query and one row.  Next to the rows printed  *)
(* the run keeps the rows the same draws give when no query fails.         *)
(***************************************************************************)
\* for n := 30 (here the smallest rank)
LabFirst == 1

RECURSIVE LoopFrom(_)
\* the values n takes: n <= 60 (here MaxLabDim), n += 2
LoopFrom(n) == IF n > MaxLabDim THEN <<>> ELSE <<n>> \o LoopFrom(n + LabStep)

LoopValues == LoopFrom(LabFirst)

\* the draws of genRandomBasis(n, q) the run is taken on: those with zeros
\* below the diagonal
LabBases(n) ==
    LET Upper == {c \in (1..n) \X (1..n) : c[1] <= c[2]}
    IN  {[i \in 1..n |-> [j \in 1..n |-> IF i <= j THEN f[<<i, j>>] ELSE 0]] :
            f \in [Upper -> RandInt(LabQ)]}

\* slip: a failed query ends the loop
NextNAbort(n, failed) == IF failed THEN MaxLabDim + 1 ELSE n + LabStep

\* n += 2, whatever the query returned
NextN(n, failed) == n + LabStep

\* what svpOracle can return on a basis: its failure value, the squared norm
\* of the vector the engine prints (here a row of the basis), or the radius
\* squared, the radius being 1.5 * ghFloat
OracleReturns(basis, gh) ==
    {[ret |-> FailureValue("svp", Len(basis)), fail |-> f] : f \in {"write", "engine"}}
        \cup {svpOracleParse(VectorText(basis[i]), 0) : i \in 1..Len(basis)}
        \cup {[ret |-> [t |-> "radius2", gh |-> gh], fail |-> "parse",
               profiled |-> FALSE]}

\* math.Sqrt(svpNormSquared)
SqrtFloat(x) ==
    IF x.t = "num" /\ x.v >= 0 /\ Sqrt(x.v) * Sqrt(x.v) = x.v
    THEN Num(Sqrt(x.v))
    ELSE [t |-> "sqrt", x |-> x]

\* math.Abs(svpNorm-ghFloat) / svpNorm * 100: dividing by 0 gives +Inf, or
\* NaN when the prediction is 0 too
RelativeError(svpNorm, ghFloat) ==
    IF svpNorm = Num(0)
    THEN IF ghFloat = Num(0) THEN NaN ELSE PosInf
    ELSE [t |-> "relerr", norm |-> svpNorm, gh |-> ghFloat]

\* the row printed for n
Lab1RowOf(n, ghFloat, svpNormSquared) ==
    LET svpNorm == SqrtFloat(svpNormSquared)
    IN  [n |-> n, gh |-> ghFloat, norm |-> svpNorm,
         err |-> RelativeError(svpNorm, ghFloat)]

BatchStart ==
    /\ bpc = "start" /\ bN = 0 /\ bRows = <<>> /\ bRef = <<>>
    /\ bIssued = <<>> /\ bFailed = {}

\* the title, the target and the column header
BatchHeader ==
    /\ bpc = "start"
    /\ bN' = LabFirst
    /\ bpc' = "loop"
    /\ UNCHANGED <<bRows, bRef, bIssued, bFailed, notBatchVars>>

\* one iteration in which svpOracle does not fail
BatchRow ==
    /\ bpc = "loop" /\ bN <= MaxLabDim
    /\ \E basis \in LabBases(bN) :
          LET rank == bN
              vol == latticeVolume(basis)
              ghFloat == GhResult(vol, rank)
          IN  \E r \in OracleReturns(basis, ghFloat) :
                /\ r.fail \notin {"write", "engine"}
                /\ bRows' = Append(bRows, Lab1RowOf(bN, ghFloat, r.ret))
                /\ bRef' = Append(bRef, Lab1RowOf(bN, ghFloat, r.ret))
    /\ bIssued' = Append(bIssued, bN)
    /\ bN' = NextN(bN, FALSE)
    /\ UNCHANGED <<bpc, bFailed, notBatchVars>>

\* one iteration in which svpOracle fails and returns its failure value; the
\* reference run gets what the engine would have answered
BatchRowFailed ==
    /\ bpc = "loop" /\ bN <= MaxLabDim
    /\ \E basis \in LabBases(bN) :
          LET rank == bN
              vol == latticeVolume(basis)
              ghFloat == GhResult(vol, rank)
          IN  \E r, ok \in OracleReturns(basis, ghFloat) :
                /\ r.fail \in {"write", "engine"}
                /\ ok.fail \notin {"write", "engine"}
                /\ bRows' = Append(bRows, Lab1RowOf(bN, ghFloat, r.ret))
                /\ bRef' = Append(bRef, Lab1RowOf(bN, ghFloat, ok.ret))
    /\ bIssued' = Append(bIssued, bN)
    /\ bFailed' = bFailed \cup {bN}
    /\ bN' = NextN(bN, TRUE)
    /\ UNCHANGED <<bpc, notBatchVars>>

\* the loop ends: "Lab 1 finished."
BatchFinish ==
    /\ bpc = "loop" /\ bN > MaxLabDim
    /\ bpc' = "finished"
    /\ UNCHANGED <<bN, bRows, bRef, bIssued, bFailed, notBatchVars>>

BatchNext == BatchHeader \/ BatchRow \/ BatchRowFailed \/ BatchFinish

\* the other machines at rest
VolIdle ==
    vBasis = <<>> /\ vOp = "idle" /\ vPrev = <<>> /\ vVol0 = -1 /\ vVol = -1
CodecIdle == cpc = "idle" /\ cBasis = <<>> /\ cText = <<>> /\ cParsed = <<>>
GenIdle == gpc = "idle" /\ gN = 0 /\ gM = 0 /\ gQ = 0 /\ gA = <<>> /\ gB = <<>>
QueryIdle == QueryStart
NativeIdle == NativeStart
ConcIdle ==
    /\ kKind = "none" /\ kBasis = <<>> /\ kpc = <<>> /\ kFiles = NoFiles
    /\ kWriter = 0 /\ kIn = <<>> /\ kFail = <<>>
GhIdle == hpc = "idle" /\ hVol = 1 /\ hRank = 1 /\ hRet = Num(0)
BatchIdle ==
    /\ bpc = "idle" /\ bN = 0 /\ bRows = <<>> /\ bRef = <<>>
    /\ bIssued = <<>> /\ bFailed = {}
MainIdle ==
    /\ mpc = "idle" /\ mN = 0 /\ mBasis = <<>> /\ mSvp = Num(0)
    /\ mProfile = <<>> /\ mLog = <<>> /\ mCalls = {}

GenInit == GenStart /\ VolIdle /\ CodecIdle /\ QueryIdle /\ MainIdle /\ NativeIdle /\ ConcIdle /\ GhIdle /\ BatchIdle

SpecGen == GenInit /\ [][GenNext]_vars

\* C1: for n >= 1, m >= 1 and q > 1 and every draw, genBasis returns an
\* (m+n) x (m+n) matrix whose top-left m x m block is q times the identity,
\* whose bottom-right n x n block is the identity and whose bottom-left
\* n x m block is zero.
C1_QaryBlocks ==
    (gpc = "returned" /\ gN >= 1 /\ gM >= 1 /\ gQ > 1) =>
        /\ Len(gB) = gM + gN
        /\ \A i \in 1..Len(gB) : Len(gB[i]) = gM + gN
        /\ \A i \in 1..gM : \A j \in 1..gM :
              gB[i][j] = (IF i = j THEN gQ ELSE 0)
        /\ \A i \in 1..gN : \A j \in 1..gN :
              gB[gM + i][gM + j] = (IF i = j THEN 1 ELSE 0)
        /\ \A i \in 1..gN : \A j \in 1..gM : gB[gM + i][j] = 0

\* a 2+2 basis with q = 3 and a non-zero draw has been returned
C1_Witness ==
    /\ gpc = "returned"
    /\ gN = 2 /\ gM = 2 /\ gQ = 3
    /\ gA = <<<<2, 1>>, <<0, 2>>>>
    /\ gB = <<<<3, 0, 2, 1>>, <<0, 3, 0, 2>>, <<0, 0, 1, 0>>, <<0, 0, 0, 1>>>>

\* C15: genBasis called with n < 1, m < 1 or q <= 0 neither returns a basis
\* nor panics
C15_InvalidParameterRejected ==
    (gN < 1 \/ gM < 1 \/ gQ <= 0) => (gpc \notin {"returned", "panic"})

\* C22: every entry of the top-right m x n block of a basis returned by
\* genBasis(n, m, q) with n, m >= 1 and q > 0 is in [0, q)
C22_RandomBlockInRange ==
    (gpc = "returned" /\ gN >= 1 /\ gM >= 1 /\ gQ > 0) =>
        \A i \in 1..gM : \A j \in 1..gN :
            0 <= gB[i][gM + j] /\ gB[i][gM + j] < gQ

C22_Witness ==
    /\ gpc = "returned" /\ gN = 1 /\ gM = 2 /\ gQ = 3
    /\ gB[1][3] = 2 /\ gB[2][3] = 0

VolInit == VolStart /\ GenIdle /\ CodecIdle /\ QueryIdle /\ MainIdle /\ NativeIdle /\ ConcIdle /\ GhIdle /\ BatchIdle

SpecVol == VolInit /\ [][VolNext]_vars

Gram(B) == MatMul(B, Transpose(B))

CodecInit == CodecStart /\ GenIdle /\ VolIdle /\ QueryIdle /\ MainIdle /\ NativeIdle /\ ConcIdle /\ GhIdle /\ BatchIdle

SpecCodec == CodecInit /\ [][CodecNext]_vars

\* C6: for a basis with a row and a column at least, parseMatrixOutput of
\* the text writeBasisToFile writes gives back the same number of rows, the
\* same row lengths and the same integer in every position.
C6_CodecRoundTrip ==
    (cpc = "parsed" /\ Len(cBasis) >= 1 /\ Len(cBasis[1]) >= 1) =>
        /\ Len(cParsed) = Len(cBasis)
        /\ \A i \in 1..Len(cBasis) :
              /\ Len(cParsed[i]) = Len(cBasis[i])
              /\ \A j \in 1..Len(cBasis[i]) : cParsed[i][j] = cBasis[i][j]

\* a 2 x 2 basis with a negative two-digit entry has made the round trip
C6_Witness ==
    /\ cpc = "parsed"
    /\ cBasis = <<<<-12, 7>>, <<0, -12>>>>
    /\ cText = <<"[", "[", "-", "1", "2", " ", "7", "]", "\n",
                 "[", "0", " ", "-", "1", "2", "]", "]", "\n">>
    /\ cParsed = cBasis

(***************************************************************************)
(* The oracle under every kind of query and every engine behaviour.        *)
(***************************************************************************)
QueryInit == QueryStart /\ GenIdle /\ VolIdle /\ CodecIdle /\ MainIdle /\ NativeIdle /\ ConcIdle /\ GhIdle /\ BatchIdle

SpecQuery == QueryInit /\ [][QueryNext]_vars

\* C2: whenever runBKZ has returned for a basis of rank r >= 1, whichever
\* implementation ran and whatever the engine did, the result is a failure
\* value of its own (nil) or a sequence of exactly r entries
C2_ProfileLengthIsRank ==
    (qpc = "returned" /\ qKind \in BkzKinds /\ Len(qBasis) >= 1)
        => (qRet.isNil \/ Len(qRet.prof) = Len(qBasis))

\* C3: once a process-backed query of a basis of rank >= 1 has returned, by
\* whichever exit path, none of the temporary files it created exists, and no
\* temporary file is left between the queries of a sequence
C3_TempFilesRemoved ==
    /\ (qpc = "returned" /\ qKind \in ProcessKinds /\ Len(qBasis) >= 1)
          => (qCreated \cap DOMAIN qFiles = {})
    /\ (qpc = "idle") => (DOMAIN qFiles = {})

\* a two-stage query whose second stage failed has returned: it created two files
C3_Witness ==
    /\ qpc = "returned" /\ qKind = "bkz2" /\ Len(qBasis) >= 1
    /\ qFail = "engine" /\ qCreated = {BkzInputFile, BkzReducedFile}
    /\ qRuns = <<"bkz", "gso">>

\* the values a process-backed query of this basis returns when it succeeds
SuccessReturns(kind, basis, radius) ==
    LET result(out) == IF kind = "svp" THEN svpOracleParse(out, radius)
                                       ELSE runBKZParse(out, Len(basis))
    IN  {result(out).ret : out \in {o \in EngineOutputs : result(o).fail = "none"}}

\* C4: the value svpOracle or the runBKZ of lab2.go returns for a failed query
\* is not a value the same query can return when it succeeds
C4_FailureValueIsDistinct ==
    (qpc = "returned" /\ qKind \in {"svp", "bkz"} /\ Len(qBasis) >= 1
        /\ qFail # "none")
        => (qRet \notin SuccessReturns(qKind, qBasis, qRadius))

\* C5: for rank r >= 1, when the engine failed, printed nothing, or printed a
\* reduced basis that has not r rows, the runBKZ of lab2.go has returned a
\* failure (r zeros, with the error reported) and computed no profile; and a
\* runBKZ of such a basis never panics
C5_EngineFailureIsRecoverable ==
    /\ (qpc = "returned" /\ qKind = "bkz" /\ Len(qBasis) >= 1
          /\ \/ qFail = "engine"
             \/ (qRuns = <<"bkz">> /\ TrimSpace(qOutput) = <<>>)
             \/ (qRuns = <<"bkz">>
                   /\ Len(parseMatrixOutput(qOutput)) # Len(qBasis)))
          => /\ qFail # "none"
             /\ ~qProfiled
             /\ qRet = Slice(ZeroProfile(Len(qBasis)))
    /\ (qKind = "bkz" /\ Len(qBasis) >= 1) => (qpc # "panic")

\* the engine printed a well-formed reduced basis with fewer rows than the rank
C5_Witness ==
    /\ qpc = "returned" /\ qKind = "bkz" /\ Len(qBasis) = 2
    /\ qOutput = writeBasisToFile(IdentityBasis(1))
    /\ qFail = "mismatch"

\* C9: whenever svpOracle, simulated or process-backed, has returned for a
\* basis of rank >= 1, its result is a number >= 0; and it never panics
C9_SvpNormNonNegative ==
    /\ (qpc = "returned" /\ qKind \in {"svp_sim", "svp"} /\ Len(qBasis) >= 1)
          => FNonNegative(qRet)
    /\ (qKind \in {"svp_sim", "svp"} /\ Len(qBasis) >= 1) => (qpc # "panic")

\* C11: when the engine printed as many rows as the rank but one of their
\* tokens is no signed base-10 integer, or the rows have unequal lengths, the
\* runBKZ of lab2.go has returned a failure and computed no profile
C11_GrammarViolationIsParseFailure ==
    LET rows == LineCoords(Split(TrimSpace(qOutput), "\n"))
        badToken == \E i \in 1..Len(rows) : \E j \in 1..Len(rows[i]) :
                       ~SetString(rows[i][j]).ok
        unequal == \E i, k \in 1..Len(rows) : Len(rows[i]) # Len(rows[k])
    IN  (qpc = "returned" /\ qKind = "bkz" /\ Len(qBasis) >= 1
            /\ qRuns = <<"bkz">> /\ qFail # "engine"
            /\ Len(rows) = Len(qBasis) /\ (badToken \/ unequal))
            => (qFail # "none" /\ ~qProfiled)

\* C13: a query whose engine never exits is not stuck for ever: it has a
\* next step, the expiry of the timeout, by which it returns with a timeout
\* failure and removes its temporary file
C13_TimeoutBoundsInvocation == (qpc = "hung") => ENABLED QueryNext

\* the number of invocations of the engine in the given mode
RunsOf(mode) == Cardinality({k \in 1..Len(qRuns) : qRuns[k] = mode})

\* C17: no retries: svpOracle starts the engine in svp mode at most once and
\* nothing else, runBKZ in bkz mode at most once and nothing else (the
\* two-stage runBKZ each of its stages at most once), and a query that has
\* failed has returned: no step of it starts the engine again
C17_NoRetries ==
    /\ \A mode \in {"svp", "bkz", "gso"} : RunsOf(mode) <= 1
    /\ (qKind = "svp") => (qRuns \in {<<>>, <<"svp">>})
    /\ (qKind = "bkz") => (qRuns \in {<<>>, <<"bkz">>})
    /\ (qKind = "bkz2") => (qRuns \in {<<>>, <<"bkz">>, <<"bkz", "gso">>})
    /\ (qKind \in SimKinds) => (qRuns = <<>>)
    /\ (qFail # "none") => (qpc = "returned" /\ ~ENABLED QEngineOk
                            /\ ~ENABLED QEngineFail /\ ~ENABLED QGsoFail)

C17_Witness ==
    /\ qpc = "returned" /\ qKind = "svp" /\ Len(qBasis) >= 1
    /\ qFail = "engine" /\ qRuns = <<"svp">>

\* the steps between phases that the state machine of a query allows; a
\* query stays in Invoking while its engine runs
PhaseSteps ==
    {<<"Idle", "Serializing">>, <<"Serializing", "Invoking">>,
     <<"Serializing", "Failure">>, <<"Invoking", "Invoking">>,
     <<"Invoking", "Parsing">>, <<"Invoking", "Failure">>,
     <<"Parsing", "Success">>, <<"Parsing", "Failure">>,
     <<"Success", "Idle">>, <<"Failure", "Idle">>}

\* svpOracle and the single-stage runBKZ on a basis of rank >= 1 only take
\* steps of the state machine, start the engine only from a written basis
\* and set a successful result only from an output the engine has printed
PhaseOrder ==
    [][((qKind \in {"svp", "bkz"} /\ Len(qBasis) >= 1)
            \/ (qKind' \in {"svp", "bkz"} /\ Len(qBasis') >= 1))
        => /\ <<Phase, Phase'>> \in PhaseSteps
           /\ (qRuns' # qRuns /\ qRuns' # <<>>)
                => (qpc = "written" /\ TmpFileOf(qKind) \in DOMAIN qFiles
                    /\ qFiles[TmpFileOf(qKind)] = writeBasisToFile(qBasis))
           /\ (Phase' = "Parsing") => (qRuns' = <<ModeOf(qKind)>>)
           /\ (Phase' = "Success") => (Phase = "Parsing")]_vars

\* a query that has crashed, or whose engine has not exited, and that has no
\* next step
Stuck == qpc \in {"panic", "hung"} /\ ~ENABLED QueryNext

\* C18: every process-backed query that has started ends in exactly one
\* outcome, Success or Failure: it is never left without a next step before
\* it has returned
C18_QueryEndsInOneOutcome ==
    (qKind \in {"svp", "bkz"} /\ Phase \notin {"Success", "Failure"}) => ~Stuck

\* C19: a process-backed runBKZ that has returned a profile has run the bkz
\* stage and then the gso stage, and has written the reduced basis to the
\* second temporary file
C19_ProfileChainsTwoStages ==
    (qpc = "returned" /\ qKind \in {"bkz", "bkz2"} /\ qFail = "none")
        => (qRuns = <<"bkz", "gso">> /\ BkzReducedFile \in qCreated)

C24_SvpGrammarViolationIsParseFailure ==
    LET outputStr == TrimSpace(qOutput)
        bracketed == HasPrefix(outputStr, "[") /\ HasSuffix(outputStr, "]")
        coords == Fields(SubSeq(outputStr, 2, Len(outputStr) - 1))
        badToken == \E k \in 1..Len(coords) : ~ParseFloat(coords[k]).ok
    IN  (qpc = "returned" /\ qKind = "svp" /\ qRuns = <<"svp">>
            /\ qFail # "engine" /\ (~bracketed \/ badToken))
            => (qFail = "parse" /\ qRet = FailureValue("svp", Len(qBasis)))

\* C25: a process-backed svpOracle or runBKZ on a basis with zero rows
\* ends in a failure returned to the caller, and after it the temporary
\* file does not exist
C25_ZeroRowsIsFailure ==
    (qKind \in {"svp", "bkz"} /\ Len(qBasis) = 0 /\ qpc # "called")
        => (qpc = "returned" /\ qFail # "none"
            /\ TmpFileOf(qKind) \notin DOMAIN qFiles)

\* C28: in the process-backed svpOracle the radius influences neither the
\* invocation nor the norm of a bracketed output: the file given to the
\* engine is the basis, the value returned for a bracketed output is the
\* one every other radius gives, and for an output that is not bracketed
\* it is the radius squared
C28_RadiusOnlyInFallback ==
    LET outputStr == TrimSpace(qOutput)
        bracketed == HasPrefix(outputStr, "[") /\ HasSuffix(outputStr, "]")
    IN  /\ (qKind = "svp" /\ qpc \in {"written", "invoked", "hung"})
              => (qFiles[SvpTmpFile] = writeBasisToFile(qBasis))
        /\ (qpc = "returned" /\ qKind = "svp" /\ qRuns = <<"svp">>
              /\ qFail # "engine")
              => IF bracketed
                 THEN \A radius \in 0..MaxRadius :
                         svpOracleParse(qOutput, radius).ret = qRet
                 ELSE qRet = Num(qRadius * qRadius)

C28_Witness ==
    /\ qpc = "returned" /\ qKind = "svp" /\ qBasis = IdentityBasis(2)
    /\ qOutput = <<"[", "1", "]">> /\ qRadius = MaxRadius /\ qRet = Num(1)

\* C29: the simulated runBKZ does not depend on the block size: the profile
\* returned is the one every other beta gives, and its entry i is log2 of
\* the square root of the squared norm of row i times 0.99 to the power i
C29_SimulatedProfileIgnoresBeta ==
    (qpc = "returned" /\ qKind = "bkz_sim" /\ Len(qBasis) >= 1) =>
        /\ \A beta \in Betas : runBKZSim(qBasis, beta) = qRet
        /\ ~qRet.isNil /\ Len(qRet.prof) = Len(qBasis)
        /\ \A i \in 1..Len(qBasis) :
              LET row == qBasis[i]
                  RECURSIVE Sum(_)
                  Sum(j) == IF j = 0 THEN 0 ELSE Sum(j - 1) + row[j] * row[j]
              IN  qRet.prof[i] = Log2Sqrt(<<Sum(Len(row)), 1>>, i - 1)

C29_Witness ==
    /\ qpc = "returned" /\ qKind = "bkz_sim" /\ qBasis = QarySample(2)
    /\ qBeta = 2
    /\ qRet.prof = <<Log2Sqrt(<<13, 1>>, 0), Log2Sqrt(<<1, 1>>, 1)>>

(***************************************************************************)
(* A run of main in the simulated build.                                   *)
(***************************************************************************)
MainInit == MainStart /\ GenIdle /\ VolIdle /\ CodecIdle /\ QueryIdle /\ NativeIdle /\ ConcIdle /\ GhIdle /\ BatchIdle

SpecMain == MainInit /\ [][MainNext]_vars

\* C10: in the simulated build, every Lab 1 row and the Lab 2 profile come
\* after a notice, printed by the same lab, that the results are simulated
C10_SimulatedIsLabelled ==
    \A i \in 1..Len(mLog) :
        (mLog[i].what \in {"row", "profile"})
            => \E j \in 1..(i - 1) :
                  mLog[j] = Line(mLog[i].lab, "simulated_note")

\* C30: in the build without the fplll tag no execution of main reaches the
\* stub createFplllMatrix: every function called is one of main, the two
\* labs and the simulated implementations, all of them by the end
C30_StubNeverCalled ==
    /\ "createFplllMatrix" \notin mCalls
    /\ mCalls \subseteq Reach({"main"})
    /\ (mpc = "done") =>
          (mCalls = {"main", "runLab1Verification", "runLab2Verification",
                     "genBasis", "latticeVolume", "gaussianHeuristic",
                     "svpOracle", "genRandomBasis", "runBKZ"})

C30_Witness ==
    /\ mpc = "done" /\ "svpOracle" \in mCalls /\ "runBKZ" \in mCalls
    /\ mProfile # <<>>

(***************************************************************************)
(* The native backend under every query.                                   *)
(***************************************************************************)
NativeInit ==
    NativeStart /\ GenIdle /\ VolIdle /\ CodecIdle /\ QueryIdle /\ MainIdle
        /\ ConcIdle /\ GhIdle /\ BatchIdle

SpecNative == NativeInit /\ [][NativeNext]_vars

\* C12: no foreign allocation is ever released twice or released without
\* having been made; only the C string of the cell in hand is live while a
\* cell is marshalled; createFplllMatrix returns with exactly the matrix
\* live; and when the native svpOracle or runBKZ has returned, every
\* allocation it made has been released exactly once
C12_ForeignAllocationsReleasedOnce ==
    /\ \A k \in 1..Len(nFrees) :
          nFrees[k] \in nAllocated /\ FreeCount(nFrees, nFrees[k]) = 1
    /\ (npc = "cell")
          => (Live(nAllocated, nFrees) = {MatrixAlloc, Alloc("str", nI, nJ)})
    /\ (npc = "created") => (Live(nAllocated, nFrees) = {MatrixAlloc})
    /\ (npc = "returned")
          => /\ Live(nAllocated, nFrees) = {}
             /\ \A a \in nAllocated : FreeCount(nFrees, a) = 1

\* the native runBKZ of a rank-2 basis has returned: matrix, GSO object,
\* parameter object and four strings were allocated and released
C12_Witness ==
    /\ npc = "returned" /\ nKind = "bkz_native" /\ Len(nBasis) = 2
    /\ Cardinality(nAllocated) = 7
    /\ Len(nFrees) = 7
    /\ SubSeq(nFrees, 5, 7) = <<ParamAlloc, GsoAlloc, MatrixAlloc>>

\* the position of the release of an allocation, 0 when it is not released
FreedAt(a) ==
    IF FreeCount(nFrees, a) = 0 THEN 0
    ELSE CHOOSE k \in 1..Len(nFrees) : nFrees[k] = a

\* C27: the native svpOracle and runBKZ release their handles in the reverse
\* order of acquisition: the BKZ parameter object before the context, the
\* context before the matrix; the matrix is never released while the
\* context built over it is live, and the engine is called with every
\* handle live
C27_ReleasedInReverseOrder ==
    /\ (FreedAt(MatrixAlloc) # 0 /\ GsoAlloc \in nAllocated)
          => (FreedAt(GsoAlloc) # 0 /\ FreedAt(GsoAlloc) < FreedAt(MatrixAlloc))
    /\ (FreedAt(GsoAlloc) # 0 /\ ParamAlloc \in nAllocated)
          => (FreedAt(ParamAlloc) # 0 /\ FreedAt(ParamAlloc) < FreedAt(GsoAlloc))
    /\ (npc = "ready")
          => ({MatrixAlloc, GsoAlloc} \cup
              (IF nKind = "bkz_native" THEN {ParamAlloc} ELSE {})
                 \subseteq Live(nAllocated, nFrees))
    /\ (npc = "returned" /\ nKind = "svp_native")
          => (SubSeq(nFrees, Len(nFrees) - 1, Len(nFrees))
                = <<GsoAlloc, MatrixAlloc>>)

C27_Witness ==
    /\ npc = "returned" /\ nKind = "bkz_native" /\ Len(nBasis) = 1
    /\ nFrees = <<Alloc("str", 1, 1), ParamAlloc, GsoAlloc, MatrixAlloc>>

(***************************************************************************)
(* Two concurrent queries under every interleaving.                        *)
(***************************************************************************)
ConcInit ==
    ConcStart /\ GenIdle /\ VolIdle /\ CodecIdle /\ QueryIdle /\ MainIdle
        /\ NativeIdle /\ GhIdle /\ BatchIdle

SpecConc == ConcInit /\ [][ConcNext]_vars

\* C14: two concurrent queries of one kind have one temporary path between
\* them: at most that one file exists, it holds the basis of whichever query
\* wrote last, and what the engine of a query finds there is the basis of
\* one of the two queries, not necessarily its own, or nothing
C14_SharedPathCollision ==
    /\ DOMAIN kFiles \subseteq {TmpFileOf(kKind)}
    /\ \A p \in DOMAIN kFiles : kFiles[p] = writeBasisToFile(kBasis[kWriter])
    /\ \A p \in DOMAIN kIn :
          /\ (kIn[p].got = "text")
                => \E w \in Queries : kIn[p].text = writeBasisToFile(kBasis[w])
          /\ (kpc[p] = "invoked" /\ kpc[3 - p] = "called")
                => (kIn[p] = Found(writeBasisToFile(kBasis[p])))

\* query 2 overwrote the file of query 1, the engine of query 1 read the
\* basis of query 2, query 1 returned and removed the file, and the engine
\* of query 2 found nothing
C14_Witness ==
    /\ kKind = "bkz"
    /\ kpc = [p \in Queries |-> IF p = 1 THEN "returned" ELSE "invoked"]
    /\ kIn[1] = Found(writeBasisToFile(kBasis[2]))
    /\ kIn[1] # Found(writeBasisToFile(kBasis[1]))
    /\ kFail[1] = "none"
    /\ kIn[2] = Missing

(***************************************************************************)
(* gaussianHeuristic on every volume and rank.                             *)
(***************************************************************************)
GhInit ==
    GhStart /\ GenIdle /\ VolIdle /\ CodecIdle /\ QueryIdle /\ MainIdle
        /\ NativeIdle /\ ConcIdle /\ BatchIdle

SpecGh == GhInit /\ [][GhNext]_vars

\* C16: gaussianHeuristic called with rank < 1 or vol <= 0 neither returns a
\* number nor panics
C16_InvalidParameterRejected ==
    (hRank < 1 \/ hVol <= 0) => (hpc \notin {"returned", "panic"})

(***************************************************************************)
(* A run of the process-backed runLab1Verification.                        *)
(***************************************************************************)
BatchInit ==
    BatchStart /\ GenIdle /\ VolIdle /\ CodecIdle /\ QueryIdle /\ MainIdle
        /\ NativeIdle /\ ConcIdle /\ GhIdle

SpecBatch == BatchInit /\ [][BatchNext]_vars

\* C20: whichever queries fail, runLab1Verification issues the query for
\* every n in ascending order and prints one row per n, all of them once it
\* has finished; the row of a query that did not fail is the row of the run
\* in which no query fails, and the row of a failed one has norm 0
C20_FailureDegradesOwnSlot ==
    /\ Len(bIssued) <= Len(LoopValues)
    /\ bIssued = SubSeq(LoopValues, 1, Len(bIssued))
    /\ (bpc = "finished") => (bIssued = LoopValues)
    /\ Len(bRows) = Len(bIssued) /\ Len(bRef) = Len(bIssued)
    /\ \A i \in 1..Len(bRows) :
          /\ bRows[i].n = LoopValues[i]
          /\ (bIssued[i] \notin bFailed) => (bRows[i] = bRef[i])
          /\ (bIssued[i] \in bFailed) => (bRows[i].norm = Num(0))
    /\ bFailed \subseteq {bIssued[i] : i \in 1..Len(bIssued)}

C20_Witness ==
    /\ bpc = "finished" /\ bFailed = {LabFirst} /\ Len(bRows) >= 2
    /\ bRows[1] # bRef[1]
    /\ bRows[Len(bRows)] = bRef[Len(bRows)]

====
